---- MODULE Spec2Model ----
(***************************************************************************)
(* PageRank (src/pagerank/pagerank.py): transition_model, sample_pagerank  *)
(* and iterate_pagerank as a state machine over a corpus (page -> set of   *)
(* linked pages).                                                          *)
(*                                                                         *)
(* Numbers.  The program computes with Python floats.  Here every number   *)
(* is an exact rational <<numerator, denominator>> in lowest terms with a  *)
(* positive denominator, so "equal" and "sums to 1" below mean equality of *)
(* the real-number values the float expressions denote; float rounding     *)
(* (about 1e-16 per operation) is abstracted away.                         *)
(***************************************************************************)
EXTENDS Integers, FiniteSets, Sequences, TLC

(***************************************************************************)
(* Bounds of the model.                                                    *)
(***************************************************************************)
\* sample_pagerank is called with n in 0..MaxN
MaxN == 3
\* a pass of iterate_pagerank is only started while every denominator of the
\* rank vector is at most MaxDen (keeps the arithmetic inside TLC's integers)
MaxDen == 10000000

\* the universe of page names; a corpus has a prefix of it as its key set,
\* edge sets may name any page of the universe (so also pages that are not keys)
Pages == <<"A", "B", "C">>
PageSet == {Pages[k] : k \in 1..Len(Pages)}

(***************************************************************************)
(* Rational arithmetic standing for the float operators + - * / abs > .    *)
(***************************************************************************)
Abs(k) == IF k < 0 THEN -k ELSE k

RECURSIVE GCD(_, _)
GCD(a, b) == IF b = 0 THEN a ELSE GCD(b, a % b)

\* RatOf, RAddOf and RMulOf take their arguments as values: Rat, RAdd and RMul
\* evaluate each argument expression once and bind the result (an argument
\* expression is otherwise evaluated again at each of its uses)
RatOf(a, g) == <<a[1] \div g, a[2] \div g>>

\* the rational a/b (b # 0) in lowest terms with positive denominator
Rat(a, b) ==
    CHOOSE r \in {RatOf(v, g) : v \in {IF b < 0 THEN <<-a, -b>> ELSE <<a, b>>},
                                g \in {GCD(Abs(a), Abs(b))}} : TRUE

Zero == <<0, 1>>
One == <<1, 1>>

RAddOf(x, y) ==
    CHOOSE r \in {Rat(a, b) :
                    a \in {x[1] * (y[2] \div GCD(x[2], y[2]))
                           + y[1] * (x[2] \div GCD(x[2], y[2]))},
                    b \in {(x[2] \div GCD(x[2], y[2])) * y[2]}} : TRUE

RAdd(x, y) == CHOOSE r \in {RAddOf(a, b) : a \in {x}, b \in {y}} : TRUE

RNeg(x) == <<-x[1], x[2]>>

RSub(x, y) == RAdd(x, RNeg(y))

RMulOf(x, y) ==
    CHOOSE r \in {Rat(a, b) :
                    a \in {(x[1] \div GCD(Abs(x[1]), y[2]))
                           * (y[1] \div GCD(Abs(y[1]), x[2]))},
                    b \in {(x[2] \div GCD(Abs(y[1]), x[2]))
                           * (y[2] \div GCD(Abs(x[1]), y[2]))}} : TRUE

RMul(x, y) == CHOOSE r \in {RMulOf(a, b) : a \in {x}, b \in {y}} : TRUE

\* x / k for an integer k > 0 (k = 0 raises ZeroDivisionError in the program;
\* every division in the model is by a positive count)
RDiv(x, k) == RMul(x, <<1, k>>)

\* x > y
RGt(x, y) == RSub(x, y)[1] > 0

RGe(x, y) == RSub(x, y)[1] >= 0

\* the sum of f[p] over p in S
RECURSIVE RSum(_, _)
RSum(f, S) ==
    IF S = {} THEN Zero
    ELSE LET p == CHOOSE q \in S : TRUE
         IN  RAdd(f[p], RSum(f, S \ {p}))

(***************************************************************************)
(* The corpus.                                                             *)
(***************************************************************************)
\* every corpus the model hands to the functions: keys a prefix of Pages,
\* each edge set any subset of the universe
Corpora ==
    UNION {[{Pages[k] : k \in 1..m} -> SUBSET PageSet] : m \in 0..Len(Pages)}

\* every edge target is a key
WellFormed(cor) == \A p \in DOMAIN cor : cor[p] \subseteq DOMAIN cor

NonEmpty(cor) == DOMAIN cor # {}

\* damping factors handed to transition_model and sample_pagerank:
\* -1/2 (outside [0,1]), 0, 1/2, 0.85 (DAMPING) and 1
Dampings == {<<-1, 2>>, <<0, 1>>, <<1, 2>>, <<17, 20>>, <<1, 1>>}

\* damping factors handed to iterate_pagerank
IterDampings == {<<-1, 2>>, <<0, 1>>, <<1, 2>>, <<1, 1>>}

InUnit(dmp) == RGe(dmp, Zero) /\ RGe(One, dmp)

(***************************************************************************)
(* transition_model                                                        *)
(***************************************************************************)
\* line 77 reads output[linked_page]: KeyError when a linked page is no key
KeyError(cor, page) == \E linked_page \in cor[page] : linked_page \notin DOMAIN cor

\* lines 74-77: add damping_factor / linked_pages_count to every linked page
RECURSIVE AddLinked(_, _, _)
AddLinked(output, links, share) ==
    IF links = {} THEN output
    ELSE LET linked_page == CHOOSE l \in links : TRUE
         IN  AddLinked([output EXCEPT ![linked_page] = RAdd(@, share)],
                       links \ {linked_page}, share)

\* transition_model with the dangling branch (lines 78-81) left out
transition_model_NoElse(cor, page, dmp) ==
    LET web_pages_count == Cardinality(DOMAIN cor)
        base == [web_page \in DOMAIN cor |-> RDiv(RSub(One, dmp), web_pages_count)]
    IN  IF cor[page] # {}
        THEN AddLinked(base, cor[page], RDiv(dmp, Cardinality(cor[page])))
        ELSE base

\* transition_model spreading the damping mass over web_pages_count
transition_model_ByN(cor, page, dmp) ==
    LET web_pages_count == Cardinality(DOMAIN cor)
        base == [web_page \in DOMAIN cor |-> RDiv(RSub(One, dmp), web_pages_count)]
    IN  IF cor[page] # {}
        THEN AddLinked(base, cor[page], RDiv(dmp, web_pages_count))
        ELSE [web_page \in DOMAIN cor |-> RDiv(One, web_pages_count)]

\* the distribution transition_model returns (page a key, no KeyError)
transition_model(cor, page, dmp) ==
    LET web_pages_count == Cardinality(DOMAIN cor)
        base == [web_page \in DOMAIN cor |-> RDiv(RSub(One, dmp), web_pages_count)]
    IN  IF cor[page] # {}
        THEN AddLinked(base, cor[page], RDiv(dmp, Cardinality(cor[page])))
        ELSE [web_page \in DOMAIN cor |-> RDiv(One, web_pages_count)]

\* the corpus after transition_model when dangling pages are given links to
\* every page by assignment to the corpus
CorpusAfter_Patch(cor, page) ==
    [cor EXCEPT ![page] = IF @ = {} THEN DOMAIN cor ELSE @]

\* the corpus as transition_model leaves it: no statement assigns to it
CorpusAfter(cor, page) == cor

(***************************************************************************)
(* sample_pagerank helpers                                                 *)
(***************************************************************************)
\* line 119 crediting 1 / (n + 1) per visit
Credit_OffByOne(output, sample, n) ==
    [output EXCEPT ![sample] = RAdd(@, <<1, n + 1>>)]

\* line 119: output[sample] = output[sample] + 1 / n
Credit(output, sample, n) ==
    [output EXCEPT ![sample] = RAdd(@, Rat(1, n))]

\* lines 115-116: random.choices(population, weights)[0] can return exactly the
\* pages whose weight is positive
Choices(weights) == {p \in DOMAIN weights : RGt(weights[p], Zero)}

(***************************************************************************)
(* iterate_pagerank helpers                                                *)
(***************************************************************************)
\* the inner loop with the dangling branch (lines 158-160) left out
RECURSIVE ProbVisitFromOther_NoDangling(_, _, _, _)
ProbVisitFromOther_NoDangling(cor, prev, current_page, todo) ==
    IF todo = {} THEN Zero
    ELSE LET web_page == CHOOSE q \in todo : TRUE
             rest == ProbVisitFromOther_NoDangling(cor, prev, current_page, todo \ {web_page})
         IN  IF cor[web_page] # {} /\ current_page \in cor[web_page]
             THEN RAdd(rest, RDiv(prev[web_page], Cardinality(cor[web_page])))
             ELSE rest

\* lines 147-160: prob_visit_from_other accumulated over the pages `todo` of
\* the corpus, reading the ranks `prev`
RECURSIVE ProbVisitFromOther(_, _, _, _)
ProbVisitFromOther(cor, prev, current_page, todo) ==
    IF todo = {} THEN Zero
    ELSE LET web_page == CHOOSE q \in todo : TRUE
             rest == ProbVisitFromOther(cor, prev, current_page, todo \ {web_page})
         IN  IF cor[web_page] # {}
             THEN IF current_page \in cor[web_page]
                  THEN RAdd(rest, RDiv(prev[web_page], Cardinality(cor[web_page])))
                  ELSE rest
             ELSE RAdd(rest, RDiv(prev[web_page], Cardinality(DOMAIN cor)))

\* the update of one page reading the vector that is being written
UpdatePage_InPlace(cor, out, out_copy, current_page, dmp) ==
    [out EXCEPT ![current_page] =
        RAdd(RDiv(RSub(One, dmp), Cardinality(DOMAIN cor)),
             RMul(dmp, ProbVisitFromOther(cor, out, current_page, DOMAIN cor)))]

\* lines 145-163 for one current_page: output[current_page] is rewritten from
\* output_copy
UpdatePage(cor, out, out_copy, current_page, dmp) ==
    [out EXCEPT ![current_page] =
        RAdd(RDiv(RSub(One, dmp), Cardinality(DOMAIN cor)),
             RMul(dmp, ProbVisitFromOther(cor, out_copy, current_page, DOMAIN cor)))]

\* the convergence test with a tolerance of 0.01
Significant_Loose(diff) == Abs(diff[1]) > diff[2] \div 100

\* the convergence test with no tolerance at all
Significant_Any(diff) == Abs(diff[1]) >= 0

\* line 169: abs(difference) > 0.001, for difference = diff[1] / diff[2]
\* (|a| * 1000 > b  iff  |a| > b \div 1000 for integers)
Significant(diff) == Abs(diff[1]) > diff[2] \div 1000

\* lines 168-169: the list significant_differences, as the set of its pages
SignificantDifferences(out, out_copy) ==
    {p \in DOMAIN out_copy : Significant(RSub(out[p], out_copy[p]))}

\* every denominator of the vector is within the model's integer range
InRange(out) == \A p \in DOMAIN out : out[p][2] <= MaxDen

(***************************************************************************)
(* State                                                                   *)
(***************************************************************************)
VARIABLES
    corpus,           \* the graph handed to the functions
    op,               \* the function being run: "none", "transition_model",
                      \* "sample_pagerank", "iterate_pagerank"
    pc,               \* position: "idle", "sampling", "entered", "in_pass",
                      \* "continue", "returned", "failed", "capped"
    error,            \* the exception a failed call raised, or "none"
    damping_factor,   \* argument
    page,             \* transition_model's argument, or "-"
    n,                \* sample_pagerank's argument
    i,                \* sample_pagerank's loop index (draws made so far)
    sample,           \* sample_pagerank's current page, or "-"
    visits,           \* history: how often each page was drawn in this call
    output,           \* the local result mapping of the running call
    output_copy,      \* iterate_pagerank's snapshot of output
    visited           \* pages already rewritten in the current pass

vars == <<corpus, op, pc, error, damping_factor, page, n, i, sample, visits,
          output, output_copy, visited>>

Empty == [p \in {} |-> Zero]

\* the locals of a call that is not running
NoCall ==
    /\ op = "none" /\ pc = "idle" /\ error = "none"
    /\ damping_factor = Zero /\ page = "-" /\ n = 0 /\ i = 0 /\ sample = "-"
    /\ visits = Empty /\ output = Empty /\ output_copy = Empty /\ visited = {}

Init == corpus \in Corpora /\ NoCall

(***************************************************************************)
(* transition_model(corpus, page, damping_factor), lines 52-83             *)
(***************************************************************************)
TransitionModel(pg, dmp) ==
    /\ pc = "idle"
    /\ pg \in DOMAIN corpus
    /\ op' = "transition_model"
    /\ page' = pg
    /\ damping_factor' = dmp
    /\ IF KeyError(corpus, pg)
       THEN /\ pc' = "failed"
            /\ error' = "KeyError"
            /\ output' = output
       ELSE /\ pc' = "returned"
            /\ error' = error
            /\ output' = transition_model(corpus, pg, dmp)
    /\ corpus' = CorpusAfter(corpus, pg)
    /\ UNCHANGED <<n, i, sample, visits, output_copy, visited>>

(***************************************************************************)
(* sample_pagerank(corpus, damping_factor, n), lines 87-121                *)
(***************************************************************************)
\* lines 97-99
SampleCall(dmp, count) ==
    /\ pc = "idle"
    /\ op' = "sample_pagerank"
    /\ pc' = "sampling"
    /\ damping_factor' = dmp
    /\ n' = count
    /\ i' = 0
    /\ output' = [web_page \in DOMAIN corpus |-> Zero]
    /\ visits' = [web_page \in DOMAIN corpus |-> 0]
    /\ UNCHANGED <<corpus, error, page, sample, output_copy, visited>>

\* lines 103-106 and 119: the first draw, random.choice over the pages
\* (IndexError on an empty list)
SampleFirst ==
    /\ pc = "sampling" /\ i = 0 /\ i < n
    /\ IF DOMAIN corpus = {}
       THEN /\ pc' = "failed"
            /\ error' = "IndexError"
            /\ UNCHANGED <<i, sample, visits, output>>
       ELSE \E s \in DOMAIN corpus :
                /\ sample' = s
                /\ output' = Credit(output, s, n)
                /\ visits' = [visits EXCEPT ![s] = @ + 1]
                /\ i' = i + 1
                /\ UNCHANGED <<pc, error>>
    /\ UNCHANGED <<corpus, op, damping_factor, page, n, output_copy, visited>>

\* lines 107-119: a later draw, weighted by the transition model of `sample`
SampleNext ==
    /\ pc = "sampling" /\ i > 0 /\ i < n
    /\ IF KeyError(corpus, sample)
       THEN /\ pc' = "failed"
            /\ error' = "KeyError"
            /\ UNCHANGED <<i, sample, visits, output>>
       ELSE \E s \in Choices(transition_model(corpus, sample, damping_factor)) :
                /\ sample' = s
                /\ output' = Credit(output, s, n)
                /\ visits' = [visits EXCEPT ![s] = @ + 1]
                /\ i' = i + 1
                /\ UNCHANGED <<pc, error>>
    /\ corpus' = CorpusAfter(corpus, sample)
    /\ UNCHANGED <<op, damping_factor, page, n, output_copy, visited>>

\* line 121
SampleReturn ==
    /\ pc = "sampling" /\ i >= n
    /\ pc' = "returned"
    /\ UNCHANGED <<corpus, op, error, damping_factor, page, n, i, sample, visits,
                   output, output_copy, visited>>

(***************************************************************************)
(* iterate_pagerank(corpus, damping_factor), lines 125-175                 *)
(***************************************************************************)
\* lines 135-139
IterCall(dmp) ==
    /\ pc = "idle"
    /\ op' = "iterate_pagerank"
    /\ pc' = "entered"
    /\ damping_factor' = dmp
    /\ output' = [web_page \in DOMAIN corpus |-> Rat(1, Cardinality(DOMAIN corpus))]
    /\ UNCHANGED <<corpus, error, page, n, i, sample, visits, output_copy, visited>>

\* line 144: output_copy = copy.deepcopy(output)
IterBeginPass ==
    /\ pc \in {"entered", "continue"}
    /\ InRange(output)
    /\ output_copy' = output
    /\ visited' = {}
    /\ pc' = "in_pass"
    /\ UNCHANGED <<corpus, op, error, damping_factor, page, n, i, sample, visits, output>>

\* lines 145-163 for one current_page; the dict order of the pages is not fixed
IterPage(current_page) ==
    /\ pc = "in_pass"
    /\ current_page \in DOMAIN output_copy \ visited
    /\ output' = UpdatePage(corpus, output, output_copy, current_page, damping_factor)
    /\ visited' = visited \cup {current_page}
    /\ UNCHANGED <<corpus, op, pc, error, damping_factor, page, n, i, sample, visits,
                   output_copy>>

\* lines 168-175: the convergence test at the end of a pass
IterCheck ==
    /\ pc = "in_pass"
    /\ visited = DOMAIN output_copy
    /\ pc' = IF SignificantDifferences(output, output_copy) = {}
             THEN "returned" ELSE "continue"
    /\ UNCHANGED <<corpus, op, error, damping_factor, page, n, i, sample, visits,
                   output, output_copy, visited>>

\* the model stops following a call whose numbers leave the integer range
IterCap ==
    /\ pc \in {"entered", "continue"}
    /\ ~InRange(output)
    /\ pc' = "capped"
    /\ UNCHANGED <<corpus, op, error, damping_factor, page, n, i, sample, visits,
                   output, output_copy, visited>>

(***************************************************************************)
(* The caller                                                              *)
(***************************************************************************)
\* the call is over (result used, exception propagated); its locals are gone
Done ==
    /\ pc \in {"returned", "failed", "capped"}
    /\ op' = "none" /\ pc' = "idle" /\ error' = "none"
    /\ damping_factor' = Zero /\ page' = "-" /\ n' = 0 /\ i' = 0 /\ sample' = "-"
    /\ visits' = Empty /\ output' = Empty /\ output_copy' = Empty /\ visited' = {}
    /\ UNCHANGED corpus

Next ==
    \/ \E pg \in PageSet, dmp \in Dampings : TransitionModel(pg, dmp)
    \/ \E dmp \in Dampings, count \in 0..MaxN : SampleCall(dmp, count)
    \/ SampleFirst
    \/ SampleNext
    \/ SampleReturn
    \/ \E dmp \in IterDampings : IterCall(dmp)
    \/ IterBeginPass
    \/ \E p \in PageSet : IterPage(p)
    \/ IterCheck
    \/ IterCap
    \/ Done

Spec == Init /\ [][Next]_vars

\* iterate_pagerank alone, each step of a running call eventually taken
NextIter ==
    \/ \E dmp \in IterDampings : IterCall(dmp)
    \/ IterBeginPass
    \/ \E p \in PageSet : IterPage(p)
    \/ IterCheck
    \/ IterCap
    \/ Done

FairIter ==
    /\ Init
    /\ [][NextIter]_vars
    /\ WF_vars(IterBeginPass)
    /\ WF_vars(\E p \in PageSet : IterPage(p))
    /\ WF_vars(IterCheck)
    /\ WF_vars(IterCap)

TypeOK ==
    /\ corpus \in Corpora
    /\ pc \in {"idle", "sampling", "entered", "in_pass", "continue", "returned",
               "failed", "capped"}
    /\ DOMAIN output \subseteq DOMAIN corpus

(***************************************************************************)
(* Notions the properties are stated with                                  *)
(***************************************************************************)
RECURSIVE ISum(_, _)
ISum(f, S) ==
    IF S = {} THEN 0
    ELSE LET p == CHOOSE q \in S : TRUE
         IN  f[p] + ISum(f, S \ {p})

Returned(f) == pc = "returned" /\ op = f

\* x = a / b, for a rational x and integers a, b with b # 0
IsQuotient(x, a, b) == x[1] * b = a * x[2]

\* |x - y| <= 0.001 (a numerator above 3000000 is beyond 0.001 for every
\* denominator the model can hold)
WithinTolerance(x, y) ==
    LET diff == RSub(x, y)
    IN  IF Abs(diff[1]) > 3000000 THEN FALSE
        ELSE Abs(diff[1]) * 1000 <= diff[2]

\* the PageRank recurrence for page p over the complete vector prev
Recurrence(cor, prev, p, dmp) ==
    LET N == Cardinality(DOMAIN cor)
        linking == {q \in DOMAIN cor : cor[q] # {} /\ p \in cor[q]}
        dangling == {q \in DOMAIN cor : cor[q] = {}}
        fromLinks == RSum([q \in linking |-> RDiv(prev[q], Cardinality(cor[q]))], linking)
        fromDangling == RSum([q \in dangling |-> RDiv(prev[q], N)], dangling)
    IN  RAdd(RDiv(RSub(One, dmp), N), RMul(dmp, RAdd(fromLinks, fromDangling)))

Uniform(cor) == [p \in DOMAIN cor |-> Rat(1, Cardinality(DOMAIN cor))]

(***************************************************************************)
(* Properties                                                              *)
(***************************************************************************)
\* C1: for a non-empty corpus whose edge targets are all keys, a page that is
\* a key and a damping factor in [0,1], transition_model returns a mapping
\* with exactly the corpus's keys, non-negative values, and sum 1 (also when
\* the page links to itself).
C1_TransitionModelIsDistribution ==
    (/\ Returned("transition_model")
     /\ NonEmpty(corpus) /\ WellFormed(corpus) /\ InUnit(damping_factor))
    => /\ DOMAIN output = DOMAIN corpus
       /\ \A x \in DOMAIN output : output[x][1] >= 0 /\ output[x][2] > 0
       /\ RSum(output, DOMAIN output) = One

C1_Witness ==
    /\ Returned("transition_model")
    /\ DOMAIN corpus = PageSet /\ WellFormed(corpus)
    /\ corpus[page] = {page, "C"} /\ page = "A"
    /\ damping_factor = <<17, 20>>

\* C2: transition_model's value for every page x is 1/N when the page has no
\* links, otherwise (1-d)/N + d/k when x is linked from the page and (1-d)/N
\* when it is not (N pages, k links, d = dn/dd); the mass above (1-d)/N summed
\* over the linked pages is d.
C2_TransitionModelReference ==
    Returned("transition_model") =>
        LET N == Cardinality(DOMAIN corpus)
            k == Cardinality(corpus[page])
            dn == damping_factor[1]
            dd == damping_factor[2]
            extra == [x \in corpus[page] |-> RSub(output[x], Rat(dd - dn, dd * N))]
        IN  IF corpus[page] = {}
            THEN \A x \in DOMAIN corpus : IsQuotient(output[x], 1, N)
            ELSE /\ \A x \in DOMAIN corpus :
                       IF x \in corpus[page]
                       THEN IsQuotient(output[x], (dd - dn) * k + dn * N, dd * N * k)
                       ELSE IsQuotient(output[x], dd - dn, dd * N)
                 /\ RSum(extra, corpus[page]) = damping_factor

C2_Witness ==
    /\ Returned("transition_model")
    /\ DOMAIN corpus = PageSet
    /\ Cardinality(corpus[page]) = 2
    /\ damping_factor = <<17, 20>>
    /\ \E x \in DOMAIN corpus : x \notin corpus[page]

\* C3: for a non-empty well-formed corpus, d in [0,1] and n >= 1, whatever the
\* draws, sample_pagerank returns after exactly n draws a mapping with one
\* entry per page, each entry the page's visit count divided by n, summing to
\* 1; for n = 1 one page has value 1 and every other page 0.
C3_SampleIsVisitFrequency ==
    (/\ Returned("sample_pagerank")
     /\ NonEmpty(corpus) /\ WellFormed(corpus) /\ InUnit(damping_factor) /\ n >= 1)
    => /\ i = n
       /\ ISum(visits, DOMAIN visits) = n
       /\ DOMAIN output = DOMAIN corpus
       /\ \A p \in DOMAIN output : IsQuotient(output[p], visits[p], n)
       /\ RSum(output, DOMAIN output) = One
       /\ n = 1 => \E p \in DOMAIN output :
                       /\ output[p] = One
                       /\ \A q \in DOMAIN output \ {p} : output[q] = Zero

C3_Witness ==
    /\ Returned("sample_pagerank")
    /\ DOMAIN corpus = PageSet /\ WellFormed(corpus)
    /\ damping_factor = <<17, 20>>
    /\ n = 3
    /\ visits = [p \in PageSet |-> IF p = "A" THEN 2 ELSE IF p = "B" THEN 1 ELSE 0]

\* C4: for a non-empty well-formed corpus and d in [0,1], the rank vector of
\* iterate_pagerank has one entry per page and sums to 1 initially and after
\* every full pass, hence also when it is returned.
C4_IterateSumsToOne ==
    (/\ op = "iterate_pagerank"
     /\ \/ pc \in {"entered", "continue", "returned"}
        \/ pc = "in_pass" /\ visited = DOMAIN output_copy
     /\ NonEmpty(corpus) /\ WellFormed(corpus) /\ InUnit(damping_factor))
    => /\ DOMAIN output = DOMAIN corpus
       /\ RSum(output, DOMAIN output) = One

C4_Witness ==
    /\ Returned("iterate_pagerank")
    /\ DOMAIN corpus = PageSet /\ WellFormed(corpus)
    /\ \E p \in PageSet : corpus[p] = {}
    /\ \E p \in PageSet : corpus[p] # {}
    /\ damping_factor = <<1, 2>>
    /\ output_copy # Uniform(corpus)

\* a call of iterate_pagerank on a non-empty well-formed corpus with d in [0,1]
\* has just been entered
IterEnteredUnit ==
    /\ op = "iterate_pagerank" /\ pc = "entered"
    /\ NonEmpty(corpus) /\ WellFormed(corpus) /\ InUnit(damping_factor)

\* the same with d < 1
IterEnteredBelowOne == IterEnteredUnit /\ damping_factor # One

IterReturned == pc = "returned"

IterReturnedOrCapped == pc = "returned" \/ pc = "capped"

C6_InvalidParametersRejected ==
    pc = "returned" =>
        /\ InUnit(damping_factor)
        /\ op = "sample_pagerank" => n >= 1

\* C7: for a corpus with no pages, or with an edge to a page that is not a
\* key, sample_pagerank and iterate_pagerank fail; neither returns a mapping.
C7_InvalidGraphRejected ==
    (pc = "returned" /\ op \in {"sample_pagerank", "iterate_pagerank"})
    => (NonEmpty(corpus) /\ WellFormed(corpus))

\* C8: no step of transition_model, sample_pagerank or iterate_pagerank changes
\* the corpus (its keys and every edge set stay as they were).
C8_CorpusReadOnly == [][corpus' = corpus]_vars

C8_Witness ==
    /\ Returned("sample_pagerank")
    /\ n = 3 /\ i = 3
    /\ DOMAIN corpus = PageSet
    /\ corpus[sample] = {}
    /\ visits[sample] = 3

\* C9: within a pass of iterate_pagerank every page already written holds the
\* recurrence evaluated on the complete vector as it stood when the pass began
\* (output_copy), and every page not yet written still holds its old value,
\* whatever the order in which pages are visited.
C9_SnapshotConsistentPass ==
    (op = "iterate_pagerank" /\ pc \in {"in_pass", "continue", "returned"}) =>
        \A p \in DOMAIN corpus :
            IF p \in visited
            THEN output[p] = Recurrence(corpus, output_copy, p, damping_factor)
            ELSE output[p] = output_copy[p]

C9_Witness ==
    /\ op = "iterate_pagerank" /\ pc = "in_pass"
    /\ DOMAIN corpus = PageSet /\ WellFormed(corpus)
    /\ Cardinality(visited) = 2
    /\ \E p \in visited, q \in visited : p # q /\ p \in corpus[q]
    /\ \E p \in PageSet : corpus[p] = {}
    /\ damping_factor = <<1, 2>>
    /\ output_copy # Uniform(corpus)

\* C10: iterate_pagerank returns exactly at the end of a pass in which every
\* page changed by at most 0.001 against the preceding vector, and what it
\* returns is that pass's new vector; after a pass in which some page changed
\* by more, the next pass starts from the new vector.
C10_StopsAtFirstQuietPass ==
    /\ Returned("iterate_pagerank") =>
          /\ \A p \in DOMAIN output : WithinTolerance(output[p], output_copy[p])
          /\ output = [p \in DOMAIN corpus |->
                          Recurrence(corpus, output_copy, p, damping_factor)]
    /\ (op = "iterate_pagerank" /\ pc = "continue") =>
          \E p \in DOMAIN output : ~WithinTolerance(output[p], output_copy[p])
    /\ (op = "iterate_pagerank" /\ pc = "in_pass" /\ visited = {}) =>
          output_copy = output

C10_Witness ==
    /\ Returned("iterate_pagerank")
    /\ DOMAIN corpus = PageSet
    /\ damping_factor = <<1, 2>>
    /\ output_copy # Uniform(corpus)
    /\ \E p \in DOMAIN output : output[p] # output_copy[p]

====
